---------------------------- MODULE Spec2Model ----------------------------
(***************************************************************************)
(* Model of frapla/arTIco:                                                 *)
(*   src/utils/_Csv.py                 class Csv (path normalisation,      *)
(*                                     write, read with delimiter probing) *)
(*   src/build/ExampleCnnMixedPipe.py  classes _Model, ExampleCnnMixedPipe *)
(*                                                                         *)
(* Three specifications share the module's variables:                      *)
(*   SpecPath  Csv.__init__ on every bounded path / flag / suffix pair     *)
(*   SpecIO    Csv.write and Csv.read against one file                     *)
(*   SpecPipe  set_params / fit / predict call sequences on one pipeline   *)
(***************************************************************************)
EXTENDS Integers, Sequences, FiniteSets, TLC

VARIABLES
    \* ---- Csv.__init__ (SpecPath) ----
    in_path,        \* argument csv_path: [parent, name], name a token sequence
    in_compress,    \* argument compress
    csv_suffix,     \* argument csv_suffix
    compr_suffix,   \* argument compr_suffix
    acc,            \* the accessor built from the arguments
    acc2,           \* a second accessor built from acc.csv_path, same flag
    \* ---- Csv.write / Csv.read (SpecIO) ----
    disk,           \* the file at self.csv_path
    db,             \* the frame the caller holds
    written,        \* what the last write() call stored and returned
    reads,          \* the pd.read_csv calls of the last read(), in order
    io,             \* outcome of the last write()/read() call
    \* ---- ExampleCnnMixedPipe / _Model (SpecPipe) ----
    is_binary,      \* _Model.is_binary
    model,          \* _Model.__model
    encoder,        \* _Model.__encoder: its fitted categories_
    builds,         \* number of keras.models.Model objects constructed so far
    calls,          \* number of pipeline calls made so far
    last            \* the last pipeline call: operation, arguments, outcome

pathVars == <<in_path, in_compress, csv_suffix, compr_suffix, acc, acc2>>
ioVars   == <<disk, db, written, reads, io>>
pipeVars == <<is_binary, model, encoder, builds, calls, last>>
vars     == <<in_path, in_compress, csv_suffix, compr_suffix, acc, acc2,
              disk, db, written, reads, io,
              is_binary, model, encoder, builds, calls, last>>

(***************************************************************************)
(* Bounds                                                                  *)
(***************************************************************************)
\* longest file name, in tokens
MaxNameLen == 5
\* most data cells of a frame (rows times columns), and most rows
MaxCells == 2
\* most pipeline calls in one behaviour
MaxCalls == 4

(***************************************************************************)
(* pathlib.PurePath, as Csv.__init__ uses it.  A file name is a sequence   *)
(* of tokens: "." is the dot, every other token is a dot-free piece of     *)
(* text, so ".csv" is <<".", "csv">>.                                      *)
(***************************************************************************)
Dot == "."
NameTokens == {Dot, "csv", "zip", "a"}

RECURSIVE SeqsUpTo(_, _)
SeqsUpTo(S, n) ==
    IF n = 0 THEN {<<>>}
    ELSE LET shorter == SeqsUpTo(S, n - 1)
         IN  shorter \cup {Append(s, t) : s \in {x \in shorter : Len(x) = n - 1}, t \in S}

EndsWith(s, t) ==
    /\ Len(t) <= Len(s)
    /\ SubSeq(s, Len(s) - Len(t) + 1, Len(s)) = t

\* name.rfind('.'), 1-based; 0 when the name holds no dot
LastDot(name) ==
    IF \E i \in 1..Len(name) : name[i] = Dot
    THEN CHOOSE i \in 1..Len(name) :
            /\ name[i] = Dot
            /\ \A j \in (i + 1)..Len(name) : name[j] # Dot
    ELSE 0

\* PurePath.suffix: the text from the last dot on, unless that dot leads or
\* ends the name
Suffix(name) ==
    LET i == LastDot(name)
    IN  IF 1 < i /\ i < Len(name) THEN SubSeq(name, i, Len(name)) ELSE <<>>

\* PurePath.with_suffix: replaces the name's suffix (appends when it has
\* none); ValueError for an empty name or a suffix that is "." or does not
\* start with a dot
WithSuffix(name, suffix) ==
    IF \/ suffix # <<>> /\ (suffix[1] # Dot \/ suffix = <<Dot>>)
       \/ name = <<>>
    THEN [err |-> "ValueError", name |-> name]
    ELSE [err |-> "none",
          name |-> SubSeq(name, 1, Len(name) - Len(Suffix(name))) \o suffix]

(***************************************************************************)
(* Csv.__init__                                                            *)
(***************************************************************************)
\* Faulty variant: the explicit flag alone decides compression
CompressBySuffixFlagOnly(name, compress, zs) == compress

\* line 44: compress = True if csv_path.suffix == compr_suffix else compress
CompressBySuffix(name, compress, zs) ==
    IF Suffix(name) = zs THEN TRUE ELSE compress

\* lines 45-46: while csv_path.suffix in {csv_suffix, compr_suffix}: strip it
RECURSIVE StripSuffixes(_, _, _)
StripSuffixes(name, cs, zs) ==
    IF Suffix(name) \in {cs, zs}
    THEN StripSuffixes(WithSuffix(name, <<>>).name, cs, zs)
    ELSE name

\* lines 44-52: the accessor Csv(path, compress, csv_suffix=cs, compr_suffix=zs)
NewCsv(path, compress, cs, zs) ==
    LET c        == CompressBySuffix(path.name, compress, zs)
        stripped == StripSuffixes(path.name, cs, zs)
        r        == WithSuffix(stripped, IF c THEN cs \o zs ELSE cs)
    IN  [state    |-> IF r.err = "none" THEN "constructed" ELSE r.err,
         compress |-> c,
         stripped |-> stripped,
         csv_path |-> [parent |-> path.parent, name |-> r.name]]

NoCsv == [state |-> "none", compress |-> FALSE, stripped |-> <<>>,
          csv_path |-> [parent |-> "", name |-> <<>>]]

DefaultCsvSuffix   == <<Dot, "csv">>
DefaultComprSuffix == <<Dot, "zip">>

Parents      == {"", "data"}
Names        == SeqsUpTo(NameTokens, MaxNameLen)
CsvSuffixes  == {DefaultCsvSuffix, <<Dot, "a">>}
\* ".zip" is the default; the annotation also lists the dot-less "zip"
ComprSuffixes == {DefaultComprSuffix, <<Dot, "a">>, <<"zip">>}

PathIdle == /\ in_path = [parent |-> "", name |-> <<>>]
            /\ in_compress = FALSE
            /\ csv_suffix = DefaultCsvSuffix
            /\ compr_suffix = DefaultComprSuffix
            /\ acc = NoCsv
            /\ acc2 = NoCsv

\* Csv(in_path, in_compress, csv_suffix=..., compr_suffix=...)
Construct ==
    /\ acc.state = "none"
    /\ acc' = NewCsv(in_path, in_compress, csv_suffix, compr_suffix)
    /\ UNCHANGED <<in_path, in_compress, csv_suffix, compr_suffix, acc2>>
    /\ UNCHANGED ioVars
    /\ UNCHANGED pipeVars

\* Csv(acc.csv_path, in_compress, ...): the accessor rebuilt from its own output
Reconstruct ==
    /\ acc.state = "constructed"
    /\ acc2.state = "none"
    /\ acc2' = NewCsv(acc.csv_path, in_compress, csv_suffix, compr_suffix)
    /\ UNCHANGED <<in_path, in_compress, csv_suffix, compr_suffix, acc>>
    /\ UNCHANGED ioVars
    /\ UNCHANGED pipeVars

(***************************************************************************)
(* Frames and CSV text.  A value is a record [k, n, s]:                    *)
(*   k = "int"    the integer n                                            *)
(*   k = "float"  the float n * 10^-5                                      *)
(*   k = "str"    the string s                                             *)
(*   k = "none"   None                                                     *)
(* A file is a sequence of lines, a line a sequence of tokens [k, n, s]:   *)
(*   k = "int"    the decimal text of n                                    *)
(*   k = "dec"    the text of n * 10^-4 written with four decimals         *)
(*   k = "str"    the text s, which is not a number                        *)
(*   k = "sep"    the delimiter character s                                *)
(***************************************************************************)
V(k, n, s) == [k |-> k, n |-> n, s |-> s]
IntV(n)    == V("int", n, "")
FloatV(n)  == V("float", n, "")
StrV(s)    == V("str", 0, s)
NoneV      == V("none", 0, "")
IntT(n)    == V("int", n, "")
DecT(n)    == V("dec", n, "")
StrT(s)    == V("str", 0, s)
EmptyT     == StrT("")
SepT(c)    == V("sep", 0, c)

Comma == ","
Tab   == "\t"

\* the integers whose decimal text the modelled strings can spell
SpelledInts == 0..3

Pad4(x) ==
    IF x < 10 THEN "000" \o ToString(x)
    ELSE IF x < 100 THEN "00" \o ToString(x)
    ELSE IF x < 1000 THEN "0" \o ToString(x)
    ELSE ToString(x)

\* the characters of a token
TokStr(t) ==
    CASE t.k = "int" -> ToString(t.n)
      [] t.k = "dec" -> ToString(t.n \div 10000) \o "." \o Pad4(t.n % 10000)
      [] OTHER       -> t.s

\* the token a string is written as: digits are digits, whoever wrote them
StrText(s) ==
    IF \E n \in SpelledInts : ToString(n) = s
    THEN IntT(CHOOSE n \in SpelledInts : ToString(n) = s)
    ELSE StrT(s)

RECURSIVE Concat(_)
Concat(toks) ==
    IF toks = <<>> THEN "" ELSE TokStr(Head(toks)) \o Concat(Tail(toks))

\* line.split(c): the fields of a line, each a token sequence
RECURSIVE SplitFrom(_, _, _, _)
SplitFrom(line, c, i, cur) ==
    IF i > Len(line) THEN <<cur>>
    ELSE IF line[i] = SepT(c)
         THEN <<cur>> \o SplitFrom(line, c, i + 1, <<>>)
         ELSE SplitFrom(line, c, i + 1, Append(cur, line[i]))

\* a field as one token: another delimiter inside it is ordinary text
FieldText(f) ==
    IF f = <<>> THEN EmptyT
    ELSE IF Len(f) = 1 /\ f[1].k # "sep" THEN f[1]
    ELSE StrT(Concat(f))

Fields(line, c) ==
    LET fs == SplitFrom(line, c, 1, <<>>)
    IN  [i \in 1..Len(fs) |-> FieldText(fs[i])]

RECURSIVE JoinLine(_, _)
JoinLine(texts, c) ==
    IF Len(texts) <= 1 THEN texts
    ELSE <<Head(texts), SepT(c)>> \o JoinLine(Tail(texts), c)

(***************************************************************************)
(* DataFrame.to_csv(path, float_format="%.4f"), as Csv.write calls it      *)
(***************************************************************************)
\* Faulty variant: two decimals are kept instead of four
Format2f(n) == ((n + 500) \div 1000) * 100

\* "%.4f" % x for x = n * 10^-5, n >= 0, in units of 10^-4
Format4f(n) == (n + 5) \div 10

ValueText(v) ==
    CASE v.k = "int"   -> IntT(v.n)
      [] v.k = "float" -> DecT(Format4f(v.n))
      [] v.k = "none"  -> EmptyT
      [] OTHER         -> StrText(v.s)

\* header line: index name, then the column labels; one line per row: the
\* index value, then the cells; comma between fields
ToCsv(f) ==
    <<JoinLine(<<ValueText(f.idxName)>> \o [j \in 1..Len(f.cols) |-> ValueText(f.cols[j])], Comma)>>
    \o [r \in 1..Len(f.index) |->
          JoinLine(<<ValueText(f.index[r])>> \o [j \in 1..Len(f.cols) |-> ValueText(f.data[r][j])],
                   Comma)]

(***************************************************************************)
(* pandas.read_csv(path, index_col=0, sep=c), as Csv.read calls it.  The   *)
(* modelled files are rectangular under every probed delimiter and hold no *)
(* empty cell below the header.                                            *)
(***************************************************************************)
\* header names: an empty one is "Unnamed: <position>", a repeated one gets
\* ".<count of earlier occurrences>"
HeaderNames(texts) ==
    LET raw == [i \in 1..Len(texts) |->
                  IF texts[i] = EmptyT THEN "Unnamed: " \o ToString(i - 1)
                  ELSE TokStr(texts[i])]
        earlier(i) == Cardinality({j \in 1..(i - 1) : raw[j] = raw[i]})
    IN  [i \in 1..Len(texts) |->
          IF earlier(i) = 0 THEN raw[i] ELSE raw[i] \o "." \o ToString(earlier(i))]

\* type inference over one column's texts: "int" when all are integers,
\* else "float" when all are numbers, else "str"
ColumnKind(texts) ==
    LET kinds == {texts[i].k : i \in 1..Len(texts)}
    IN  IF kinds \subseteq {"int"} THEN "int"
        ELSE IF kinds \subseteq {"int", "dec"} THEN "float"
        ELSE "str"

\* a text as a value of its column's kind
Convert(text, kind) ==
    CASE kind = "int"   -> IntV(text.n)
      [] kind = "float" -> IF text.k = "int" THEN FloatV(text.n * 100000)
                           ELSE FloatV(text.n * 10)
      [] OTHER          -> StrV(TokStr(text))

InferColumn(texts) ==
    [i \in 1..Len(texts) |-> Convert(texts[i], ColumnKind(texts))]

NoFrame == [idxName |-> NoneV, index |-> <<>>, cols |-> <<>>, data |-> <<>>]

\* what read_csv raises before it parses
ReadError(file) ==
    IF ~file.exists THEN "FileNotFoundError"
    ELSE IF file.lines = <<>> THEN "EmptyDataError"
    ELSE "none"

\* frame.shape[1]: the header's fields but the index column
NumCols(file, c) == Len(Fields(file.lines[1], c)) - 1

\* column j of the file, header left out
ColumnTexts(file, c, j) ==
    [r \in 1..(Len(file.lines) - 1) |-> Fields(file.lines[r + 1], c)[j]]

\* the frame of a file that exists and holds a header
ParseFrame(file, c) ==
    [idxName |-> IF Fields(file.lines[1], c)[1] = EmptyT THEN NoneV
                 ELSE StrV(HeaderNames(Fields(file.lines[1], c))[1]),
     index   |-> InferColumn(ColumnTexts(file, c, 1)),
     cols    |-> [j \in 1..NumCols(file, c) |->
                    StrV(HeaderNames(Fields(file.lines[1], c))[j + 1])],
     data    |-> [r \in 1..(Len(file.lines) - 1) |->
                    [j \in 1..NumCols(file, c) |->
                       Convert(Fields(file.lines[r + 1], c)[j + 1],
                               ColumnKind(ColumnTexts(file, c, j + 1)))]]]

ReadCsv(file, c) ==
    IF ReadError(file) # "none"
    THEN [err |-> ReadError(file), ncols |-> 0, frame |-> NoFrame]
    ELSE [err |-> "none", ncols |-> NumCols(file, c), frame |-> ParseFrame(file, c)]

\* nrows=2: the header and at most two rows
FirstRows(file) ==
    [exists |-> file.exists,
     lines  |-> SubSeq(file.lines, 1, IF Len(file.lines) < 3 THEN Len(file.lines) ELSE 3)]

\* lines 96-99: the preview, of which read uses shape[1] alone
Preview(file, c) ==
    IF ReadError(file) # "none"
    THEN [err |-> ReadError(file), ncols |-> 0]
    ELSE [err |-> "none", ncols |-> NumCols(FirstRows(file), c)]

(***************************************************************************)
(* Csv.read: delimiter probing                                             *)
(***************************************************************************)
\* Faulty variant: tab is probed before comma
delimitersTabFirst == <<Tab, Comma>>

\* line 94
delimiters == <<Comma, Tab>>

PreviewCall(c, p) == [call |-> "preview", sep |-> c, cols |-> p.ncols]

\* lines 95-100: for delimiter in delimiters: preview; break on a column.
\* After the loop `delimiter` is the one of the last preview made.
RECURSIVE Probe(_, _, _)
Probe(file, i, made) ==
    LET c == delimiters[i]
        p == Preview(file, c)
        m == Append(made, PreviewCall(c, p))
    IN  IF p.err # "none" THEN [err |-> p.err, delimiter |-> c, made |-> m]
        ELSE IF p.ncols > 0 \/ i = Len(delimiters)
        THEN [err |-> "none", delimiter |-> c, made |-> m]
        ELSE Probe(file, i + 1, m)

\* np.round(x, 0) of x = n * 10^-5, n >= 0, away from a tie
RoundUnits(n) == ((n + 50000) \div 100000) * 100000

\* lines 108-111: csv.index = np.round(csv.index, idx_round_prec)
RoundIndex(frame) ==
    IF \E r \in 1..Len(frame.index) : frame.index[r].k = "str"
    THEN [err |-> "TypeError", frame |-> NoFrame]
    ELSE [err |-> "none",
          frame |-> [frame EXCEPT !.index =
                       [r \in 1..Len(frame.index) |->
                          IF frame.index[r].k = "float"
                          THEN FloatV(RoundUnits(frame.index[r].n))
                          ELSE frame.index[r]]]]

(***************************************************************************)
(* The frames a caller holds and the files found on disk                   *)
(***************************************************************************)
CellValues  == {IntV(1), FloatV(123456), StrV("a"), StrV("1")}
ColumnLabels      == {IntV(0), StrV("a"), StrV("b")}
IndexNames  == {NoneV, StrV("idx"), StrV("a")}
IndexKinds  == {"int", "float"}

IndexValue(kind, r) ==
    IF kind = "int" THEN IntV(r) ELSE FloatV(r * 100000 + 23456)

FramesOf(nr, nc) ==
    {[idxName |-> nm,
      index   |-> [r \in 1..nr |-> IndexValue(kind, r)],
      cols    |-> cs,
      data    |-> d] :
        nm \in IndexNames, kind \in IndexKinds,
        cs \in [1..nc -> ColumnLabels],
        d  \in [1..nr -> [1..nc -> CellValues]]}

Frames ==
    UNION {FramesOf(shape[1], shape[2]) :
             shape \in {sh \in (1..MaxCells) \X (0..MaxCells) : sh[1] * sh[2] <= MaxCells}}

SampleFrame ==
    [idxName |-> NoneV, index |-> <<IntV(1)>>, cols |-> <<StrV("a")>>,
     data |-> <<<<IntV(1)>>>>]

\* a file of nf fields per line under delimiter c: a header and nr rows
FileOf(c, nf, nr) ==
    [exists |-> TRUE,
     lines  |-> <<JoinLine([j \in 1..nf |-> StrT("c" \o ToString(j))], c)>>
                \o [r \in 1..nr |-> JoinLine([j \in 1..nf |-> IntT(j)], c)]]

\* a tab-delimited file whose first field of every line holds a comma
TabFileWithCommas ==
    [exists |-> TRUE,
     lines  |-> << <<StrT("i"), SepT(Comma), StrT("j"), SepT(Tab), StrT("x")>>,
                   <<IntT(1), SepT(Comma), IntT(2), SepT(Tab), IntT(3)>> >>]

Absent    == [exists |-> FALSE, lines |-> <<>>]
EmptyFile == [exists |-> TRUE, lines |-> <<>>]

ExistingFiles ==
    {FileOf(c, nf, nr) : c \in {Comma, Tab, ";"}, nf \in 1..3, nr \in 0..3}
    \cup {TabFileWithCommas, EmptyFile}

NotWritten == [set |-> FALSE, frame |-> NoFrame, path |-> NoCsv.csv_path]
NoIo       == [op |-> "none", err |-> "none", prec |-> "None", frame |-> NoFrame,
               path |-> NoCsv.csv_path]

IoIdle == /\ disk = Absent
          /\ db = NoFrame
          /\ written = NotWritten
          /\ reads = <<>>
          /\ io = NoIo

(***************************************************************************)
(* Csv.write and Csv.read                                                  *)
(***************************************************************************)
\* lines 69-72: db.to_csv(self.csv_path, float_format=float_format)
write ==
    /\ acc.state = "constructed"
    /\ disk' = [exists |-> TRUE, lines |-> ToCsv(db)]
    /\ written' = [set |-> TRUE, frame |-> db, path |-> acc.csv_path]
    /\ io' = [op |-> "write", err |-> "none", prec |-> "None", frame |-> NoFrame,
              path |-> acc.csv_path]
    /\ UNCHANGED <<db, reads>>
    /\ UNCHANGED pathVars
    /\ UNCHANGED pipeVars

\* lines 102-111 with dtype=None, index_cols=0: the full read with the
\* delimiter c the loop left, then the rounding
FullRead(file, c, prec) ==
    IF ReadError(file) # "none" THEN [err |-> ReadError(file), frame |-> NoFrame]
    ELSE IF prec = "None" THEN [err |-> "none", frame |-> ParseFrame(file, c)]
    ELSE RoundIndex(ParseFrame(file, c))

\* lines 91-113
ReadResult(file, prec) ==
    IF Probe(file, 1, <<>>).err # "none"
    THEN [err |-> Probe(file, 1, <<>>).err, made |-> Probe(file, 1, <<>>).made,
          frame |-> NoFrame]
    ELSE [err   |-> FullRead(file, Probe(file, 1, <<>>).delimiter, prec).err,
          made  |-> Append(Probe(file, 1, <<>>).made,
                           [call |-> "full", sep |-> Probe(file, 1, <<>>).delimiter,
                            cols |-> NumCols(file, Probe(file, 1, <<>>).delimiter)]),
          frame |-> FullRead(file, Probe(file, 1, <<>>).delimiter, prec).frame]

read ==
    /\ acc.state = "constructed"
    /\ \E prec \in {"None", "0"} :
         \E r \in {ReadResult(disk, prec)} :
             /\ reads' = r.made
             /\ io' = [op |-> "read", err |-> r.err, prec |-> prec, frame |-> r.frame,
                       path |-> acc.csv_path]
    /\ UNCHANGED <<disk, db, written>>
    /\ UNCHANGED pathVars
    /\ UNCHANGED pipeVars

(***************************************************************************)
(* _Model and ExampleCnnMixedPipe                                          *)
(***************************************************************************)
\* line 24: self.__labels
labels == <<"Good", "Acceptable", "Marginal", "Poor">>
Vocabulary == {labels[i] : i \in 1..Len(labels)}

\* the values is_binary takes: unset, or what set_params stores
FlagValues == {"None", "True", "False"}

\* Faulty variant: anything but an explicit False selects the binary branch
TruthyUnlessFalse(v) == v # "False"

\* Python truth of is_binary (lines 43, 50, 59, 72)
Truthy(v) == v = "True"

NoModel == [id |-> 0, units |-> 0, loss |-> "", input_dim |-> 0, input_dim_2d |-> 0,
            trained |-> FALSE]

\* Faulty variant: a failed lookup clears the flag
SetParamsResultClearing(cur, parameters) ==
    IF "Estimator" \in parameters.keys /\ parameters.estimator.kind = "dict"
       /\ "is_binary" \in parameters.estimator.keys
    THEN [err |-> "none", is_binary |-> parameters.estimator.is_binary]
    ELSE [err |-> "KeyError", is_binary |-> "None"]

\* line 103: self.__estimator.is_binary = parameters["Estimator"]["is_binary"]
SetParamsResult(cur, parameters) ==
    IF "Estimator" \notin parameters.keys
    THEN [err |-> "KeyError", is_binary |-> cur]
    ELSE IF parameters.estimator.kind # "dict"
    THEN [err |-> "TypeError", is_binary |-> cur]
    ELSE IF "is_binary" \notin parameters.estimator.keys
    THEN [err |-> "KeyError", is_binary |-> cur]
    ELSE [err |-> "none", is_binary |-> parameters.estimator.is_binary]

Estimator(kind, keys, v) == [kind |-> kind, keys |-> keys, is_binary |-> v]
ParameterSets ==
    {[keys |-> {"Estimator"}, estimator |-> Estimator("dict", {"is_binary"}, v)] : v \in FlagValues}
    \cup {[keys |-> {}, estimator |-> Estimator("none", {}, "None")],
          [keys |-> {"Estimator"}, estimator |-> Estimator("dict", {}, "None")],
          [keys |-> {"Estimator"}, estimator |-> Estimator("list", {}, "None")]}

\* Faulty variant: a network already held is kept instead of being rebuilt
BuildNetworkCached(isb, m, b, a) ==
    IF a.x_dim = 0
    THEN [err |-> "ValueError", model |-> m, builds |-> b]
    ELSE IF m.id # 0
    THEN [err |-> "none", model |-> m, builds |-> b]
    ELSE [err |-> "none", builds |-> b + 1,
          model |-> [id |-> b + 1,
                     units |-> IF Truthy(isb) THEN 1 ELSE Len(labels),
                     loss |-> IF Truthy(isb) THEN "binary_crossentropy"
                              ELSE "categorical_crossentropy",
                     input_dim |-> a.x_dim, input_dim_2d |-> a.x2_dim,
                     trained |-> FALSE]]

\* lines 26-52 (and the argument expressions of line 58): the layers reject
\* x_dim = 0, a feature array without sequence axes, before line 49 assigns
BuildNetwork(isb, m, b, a) ==
    IF a.x_dim = 0
    THEN [err |-> "ValueError", model |-> m, builds |-> b]
    ELSE [err |-> "none", builds |-> b + 1,
          model |-> [id |-> b + 1,
                     units |-> IF Truthy(isb) THEN 1 ELSE Len(labels),
                     loss |-> IF Truthy(isb) THEN "binary_crossentropy"
                              ELSE "categorical_crossentropy",
                     input_dim |-> a.x_dim, input_dim_2d |-> a.x2_dim,
                     trained |-> FALSE]]

\* Faulty variant: a fit that fails puts the previous network back
FitResultRollback(isb, m, enc, b, a) ==
    LET built == BuildNetwork(isb, m, b, a)
        ok    == /\ built.err = "none"
                 /\ IF Truthy(isb) THEN a.y = "bool" ELSE a.y = "labels"
    IN  IF ok
        THEN [err |-> "none", stage |-> "done", builds |-> built.builds,
              model |-> [built.model EXCEPT !.trained = TRUE],
              encoder |-> IF Truthy(isb) THEN enc ELSE Vocabulary]
        ELSE [err |-> "ValueError", stage |-> IF built.err # "none" THEN "build" ELSE "train",
              builds |-> built.builds, model |-> m, encoder |-> enc]

\* lines 54-63.  Targets y: "labels" vocabulary strings, one per sample;
\* "bool" 0/1 values, one per sample; "unknown" strings outside the
\* vocabulary; "mismatch" vocabulary strings, not one per sample.
FitResult(isb, m, enc, b, a) ==
    LET built == BuildNetwork(isb, m, b, a)
        enc2  == IF Truthy(isb) THEN enc ELSE Vocabulary
    IN  IF built.err # "none"
        THEN [err |-> built.err, stage |-> "build", builds |-> b, model |-> m,
              encoder |-> enc]
        ELSE IF ~Truthy(isb) /\ a.y \notin {"labels", "mismatch"}
        THEN [err |-> "ValueError", stage |-> "encode", builds |-> built.builds,
              model |-> built.model, encoder |-> enc2]
        ELSE IF (IF Truthy(isb) THEN a.y # "bool" ELSE a.y # "labels")
        THEN [err |-> "ValueError", stage |-> "train", builds |-> built.builds,
              model |-> built.model, encoder |-> enc2]
        ELSE [err |-> "none", stage |-> "done", builds |-> built.builds,
              model |-> [built.model EXCEPT !.trained = TRUE], encoder |-> enc2]

NoOut == [cols |-> 0, kind |-> "none", val |-> "", net |-> 0]

\* lines 70-75: the outputs predict can return, or its error
PredictResult(isb, m, enc, a) ==
    IF m.id = 0 THEN [err |-> "AttributeError", outs |-> {NoOut}]
    ELSE IF a.x_dim # m.input_dim \/ a.x2_dim # m.input_dim_2d
    THEN [err |-> "ValueError", outs |-> {NoOut}]
    ELSE IF Truthy(isb)
    THEN [err |-> "none",
          outs |-> {[cols |-> m.units, kind |-> "probabilities", val |-> "", net |-> m.id]}]
    ELSE IF enc = {} THEN [err |-> "NotFittedError", outs |-> {NoOut}]
    ELSE IF m.units # Cardinality(enc) THEN [err |-> "ValueError", outs |-> {NoOut}]
    ELSE [err |-> "none",
          outs |-> {[cols |-> 1, kind |-> "labels", val |-> lab, net |-> m.id] : lab \in enc}]

FitArgs     == [x_dim : 0..2, x2_dim : 1..2, y : {"labels", "bool", "unknown", "mismatch"}]
PredictArgs == [x_dim : 0..2, x2_dim : 1..2, y : {"-"}]
NoArgs      == [x_dim |-> 0, x2_dim |-> 0, y |-> "-"]
NoParams    == [keys |-> {}, estimator |-> Estimator("none", {}, "None")]

NoCall == [op |-> "none", args |-> NoArgs, parameters |-> NoParams, err |-> "none",
           stage |-> "", out |-> NoOut, fitted |-> 0]

\* Init of _Model (lines 18-24) and of the pipeline (line 90)
PipeIdle == /\ is_binary = "None"
            /\ model = NoModel
            /\ encoder = {}
            /\ builds = 0
            /\ calls = 0
            /\ last = NoCall

\* ExampleCnnMixedPipe.set_params(**parameters)
set_params ==
    /\ calls < MaxCalls
    /\ \E parameters \in ParameterSets :
         LET r == SetParamsResult(is_binary, parameters)
         IN  /\ is_binary' = r.is_binary
             /\ last' = [NoCall EXCEPT !.op = "set_params", !.parameters = parameters,
                                       !.err = r.err, !.fitted = last.fitted]
    /\ calls' = calls + 1
    /\ UNCHANGED <<model, encoder, builds>>
    /\ UNCHANGED pathVars
    /\ UNCHANGED ioVars

\* ExampleCnnMixedPipe.fit(x, x_2d, y) -> _Model.fit
fit ==
    /\ calls < MaxCalls
    /\ \E a \in FitArgs :
         LET r == FitResult(is_binary, model, encoder, builds, a)
         IN  /\ model' = r.model
             /\ encoder' = r.encoder
             /\ builds' = r.builds
             /\ last' = [NoCall EXCEPT !.op = "fit", !.args = a, !.err = r.err,
                                       !.stage = r.stage,
                                       !.fitted = IF r.err = "none" THEN r.model.id
                                                  ELSE last.fitted]
    /\ calls' = calls + 1
    /\ UNCHANGED is_binary
    /\ UNCHANGED pathVars
    /\ UNCHANGED ioVars

\* ExampleCnnMixedPipe.predict(x, x_2d) -> _Model.predict
predict ==
    /\ calls < MaxCalls
    /\ \E a \in PredictArgs :
         LET r == PredictResult(is_binary, model, encoder, a)
         IN  \E o \in r.outs :
               last' = [NoCall EXCEPT !.op = "predict", !.args = a, !.err = r.err,
                                      !.out = o, !.fitted = last.fitted]
    /\ calls' = calls + 1
    /\ UNCHANGED <<is_binary, model, encoder, builds>>
    /\ UNCHANGED pathVars
    /\ UNCHANGED ioVars

(***************************************************************************)
(* Specifications                                                          *)
(***************************************************************************)
InitPath ==
    /\ in_path \in [parent : Parents, name : Names]
    /\ in_compress \in BOOLEAN
    /\ csv_suffix \in CsvSuffixes
    /\ compr_suffix \in ComprSuffixes
    /\ acc = NoCsv
    /\ acc2 = NoCsv
    /\ IoIdle
    /\ PipeIdle

NextPath == Construct \/ Reconstruct

SpecPath == InitPath /\ [][NextPath]_vars

\* the accessor Csv(Path("data/a.csv")): no compression, default suffixes
InitIO ==
    /\ in_path = [parent |-> "data", name |-> <<"a", Dot, "csv">>]
    /\ in_compress = FALSE
    /\ csv_suffix = DefaultCsvSuffix
    /\ compr_suffix = DefaultComprSuffix
    /\ acc = NewCsv(in_path, in_compress, csv_suffix, compr_suffix)
    /\ acc2 = NoCsv
    /\ \/ disk = Absent /\ db \in Frames
       \/ disk \in ExistingFiles /\ db = SampleFrame
    /\ written = NotWritten
    /\ reads = <<>>
    /\ io = NoIo
    /\ PipeIdle

NextIO == write \/ read

SpecIO == InitIO /\ [][NextIO]_vars

InitPipe == PathIdle /\ IoIdle /\ PipeIdle

NextPipe == set_params \/ fit \/ predict

SpecPipe == InitPipe /\ [][NextPipe]_vars

Init == InitPath \/ InitIO \/ InitPipe
Next == NextPath \/ NextIO \/ NextPipe
Spec == Init /\ [][Next]_vars

(***************************************************************************)
(* Claims about Csv.__init__ (SpecPath)                                    *)
(***************************************************************************)
CompressionEnabled == in_compress \/ Suffix(in_path.name) = compr_suffix

\* C1: after a construction that succeeds, csv_path ends in csv_suffix
\* followed by compr_suffix when compression is enabled (the flag is true or
\* the input's last suffix equals compr_suffix), and otherwise in csv_suffix
\* with no compr_suffix after it.
C1_CanonicalSuffix ==
    acc.state = "constructed" =>
        IF CompressionEnabled
        THEN EndsWith(acc.csv_path.name, csv_suffix \o compr_suffix)
        ELSE /\ EndsWith(acc.csv_path.name, csv_suffix)
             /\ csv_suffix # compr_suffix
                  => ~EndsWith(acc.csv_path.name, csv_suffix \o compr_suffix)

\* the flag is false and the input's suffix forces compression
C1_Witness ==
    /\ acc.state = "constructed"
    /\ ~in_compress
    /\ Suffix(in_path.name) = compr_suffix
    /\ EndsWith(acc.csv_path.name, csv_suffix \o compr_suffix)

\* C2: csv_path is the stripped path with csv_suffix (and compr_suffix when
\* compressing) appended, nothing else of the stripped path removed.
C2_AppendsToStripped ==
    acc.state = "constructed" =>
        acc.csv_path.name =
            StripSuffixes(in_path.name, csv_suffix, compr_suffix)
            \o (IF CompressionEnabled THEN csv_suffix \o compr_suffix ELSE csv_suffix)

\* C8: with the default suffixes, the accessor built from csv_path and the
\* same flag has that same csv_path.
C8_FixedPoint ==
    (/\ acc2.state # "none"
     /\ csv_suffix = DefaultCsvSuffix
     /\ compr_suffix = DefaultComprSuffix)
        => /\ acc2.state = "constructed"
           /\ acc2.csv_path = acc.csv_path

(***************************************************************************)
(* Claims about Csv.write and Csv.read (SpecIO)                            *)
(***************************************************************************)
\* the delimiter characters c in a line, counted in the file itself
CountSep(line, c) == Cardinality({i \in 1..Len(line) : line[i] = SepT(c)})

IsCall(r, call, c) == r.call = call /\ r.sep = c

\* C3: read previews with comma first; it previews with tab only when the
\* comma preview has no column; the one full read that follows uses comma
\* when the comma preview has a column and tab otherwise.
C3_ProbeOrder ==
    io.op = "read" =>
        /\ Len(reads) >= 1
        /\ IsCall(reads[1], "preview", Comma)
        /\ (disk.exists /\ disk.lines # <<>>) =>
              IF CountSep(disk.lines[1], Comma) > 0
              THEN /\ Len(reads) = 2
                   /\ IsCall(reads[2], "full", Comma)
              ELSE /\ Len(reads) = 3
                   /\ IsCall(reads[2], "preview", Tab)
                   /\ IsCall(reads[3], "full", Tab)

\* a tab-delimited file with no comma in its header is read with tab
C3_Witness ==
    /\ io.op = "read"
    /\ io.err = "none"
    /\ disk.exists /\ disk.lines # <<>>
    /\ CountSep(disk.lines[1], Comma) = 0
    /\ CountSep(disk.lines[1], Tab) > 0
    /\ Len(reads) = 3
    /\ IsCall(reads[3], "full", Tab)
    /\ Len(io.frame.cols) = CountSep(disk.lines[1], Tab)

\* equal but for the rounding of floats to four decimals
ValueClose(x, y) ==
    /\ x.k = y.k
    /\ IF x.k = "float"
       THEN x.n - y.n <= 5 /\ y.n - x.n <= 5
       ELSE x = y

FrameEqual(f, g) ==
    /\ f.idxName = g.idxName
    /\ f.cols = g.cols
    /\ Len(f.index) = Len(g.index)
    /\ \A r \in 1..Len(f.index) : ValueClose(f.index[r], g.index[r])
    /\ Len(f.data) = Len(g.data)
    /\ \A r \in 1..Len(f.data) :
         /\ Len(f.data[r]) = Len(g.data[r])
         /\ \A j \in 1..Len(f.data[r]) : ValueClose(f.data[r][j], g.data[r][j])

ReadAfterWrite == io.op = "read" /\ io.prec = "None" /\ written.set

\* C7: without compression, write(db) then read() with default arguments
\* returns a frame equal to db: write stores db comma-delimited at csv_path
\* and returns csv_path, read sniffs comma and reads csv_path.
C7_RoundTrip ==
    ReadAfterWrite =>
        /\ written.path = acc.csv_path
        /\ io.path = acc.csv_path
        /\ io.err = "none"
        /\ FrameEqual(io.frame, written.frame)

\* a string that is not the text of a number
PlainString(v) == v.k = "str" /\ StrText(v.s).k = "str" /\ v.s # ""

\* a frame CSV text keeps: at least one column; labels that are distinct
\* plain strings; an index name that is None or a plain string other than
\* the labels; every column all integers, all floats or all plain strings
TextFaithful(f) ==
    /\ Len(f.cols) >= 1
    /\ \A j \in 1..Len(f.cols) : PlainString(f.cols[j]) /\ f.cols[j] # f.idxName
    /\ \A i, j \in 1..Len(f.cols) : i # j => f.cols[i] # f.cols[j]
    /\ f.idxName = NoneV \/ PlainString(f.idxName)
    /\ \A r \in 1..Len(f.index) : f.index[r].k \in {"int", "float"}
    /\ \A j \in 1..Len(f.cols) :
         \/ \A r \in 1..Len(f.data) : f.data[r][j].k = "int"
         \/ \A r \in 1..Len(f.data) : f.data[r][j].k = "float"
         \/ \A r \in 1..Len(f.data) : PlainString(f.data[r][j])

\* C7 as amended: the round trip returns an equal frame when db is a frame
\* CSV text keeps (TextFaithful).
C7_RoundTripOfTextFaithful ==
    (ReadAfterWrite /\ TextFaithful(written.frame)) =>
        /\ written.path = acc.csv_path
        /\ io.path = acc.csv_path
        /\ io.err = "none"
        /\ reads = <<[call |-> "preview", sep |-> Comma, cols |-> Len(written.frame.cols)],
                     [call |-> "full", sep |-> Comma, cols |-> Len(written.frame.cols)]>>
        /\ FrameEqual(io.frame, written.frame)

\* a float column went through "%.4f" and came back within the tolerance
C7_Witness ==
    /\ ReadAfterWrite
    /\ TextFaithful(written.frame)
    /\ written.frame.data[1][1] = FloatV(123456)
    /\ io.frame.data[1][1] = FloatV(123460)
    /\ FrameEqual(io.frame, written.frame)

(***************************************************************************)
(* Claims about the pipeline (SpecPipe)                                    *)
(***************************************************************************)
\* C4: a predict that returns has one output column when is_binary is true
\* at that call, and values of the vocabulary when it is false.
C4_OutputMatchesMode ==
    (last.op = "predict" /\ last.err = "none") =>
        IF is_binary = "True"
        THEN last.out.cols = 1
        ELSE last.out.kind = "labels" /\ last.out.val \in Vocabulary

WellFormed(parameters) ==
    /\ "Estimator" \in parameters.keys
    /\ parameters.estimator.kind = "dict"
    /\ "is_binary" \in parameters.estimator.keys

\* C5: set_params stores parameters["Estimator"]["is_binary"]; without the
\* key path, or with an "Estimator" that is no mapping, the lookup raises
\* (KeyError, or TypeError for the non-mapping) and is_binary keeps its value.
C5_SetParams ==
    [][last'.op = "set_params" =>
         IF WellFormed(last'.parameters)
         THEN /\ last'.err = "none"
              /\ is_binary' = last'.parameters.estimator.is_binary
         ELSE /\ last'.err \in {"KeyError", "TypeError"}
              /\ is_binary' = is_binary]_vars

\* a failed set_params after a successful one: the flag is still set
C5_Witness ==
    /\ last.op = "set_params"
    /\ last.err = "KeyError"
    /\ ~WellFormed(last.parameters)
    /\ is_binary = "True"

\* C6: every fit builds a new network from the current is_binary and input
\* shapes and replaces the held one; predict and set_params never do, and
\* predict uses the held network.
C6_EveryFitRebuilds ==
    [][/\ last'.op = "fit" =>
            /\ model'.id = builds + 1
            /\ model'.units = (IF is_binary = "True" THEN 1 ELSE Len(labels))
            /\ model'.input_dim = last'.args.x_dim
            /\ model'.input_dim_2d = last'.args.x2_dim
       /\ last'.op \in {"predict", "set_params"} => model' = model /\ builds' = builds
       /\ (last'.op = "predict" /\ last'.err = "none") => last'.out.net = model.id]_vars

\* C6 as amended: every fit whose network construction succeeds builds a
\* new network from the current is_binary and input shapes and replaces the
\* held one; a fit whose construction raises leaves the held one in place;
\* predict and set_params never build or replace, and predict uses the held
\* network.
C6_FitRebuildsUnlessBuildRaises ==
    [][/\ (last'.op = "fit" /\ last'.args.x_dim # 0) =>
            /\ model'.id = builds + 1
            /\ builds' = builds + 1
            /\ model'.units = (IF is_binary = "True" THEN 1 ELSE Len(labels))
            /\ model'.input_dim = last'.args.x_dim
            /\ model'.input_dim_2d = last'.args.x2_dim
       /\ (last'.op = "fit" /\ last'.args.x_dim = 0) =>
            /\ last'.err # "none"
            /\ model' = model
            /\ builds' = builds
       /\ last'.op \in {"predict", "set_params"} => model' = model /\ builds' = builds
       /\ (last'.op = "predict" /\ last'.err = "none") => last'.out.net = model.id]_vars

\* a second fit has replaced the network of the first, and predict used it
C6_Witness ==
    /\ last.op = "predict"
    /\ last.err = "none"
    /\ builds = 2
    /\ last.out.net = 2

\* C9: a fit while is_binary is unset is not rejected and is a multiclass
\* fit: a softmax network over the four labels with categorical loss,
\* targets one-hot encoded; a following predict decodes to labels.
C9_UnsetFlagIsMulticlass ==
    [][/\ (last'.op = "fit" /\ is_binary = "None" /\ last'.args.x_dim # 0) =>
            /\ model'.units = 4
            /\ model'.loss = "categorical_crossentropy"
            /\ encoder' = {"Good", "Acceptable", "Marginal", "Poor"}
            /\ last'.args.y = "labels" => (last'.err = "none" /\ model'.trained)
            /\ last'.args.y = "bool" => last'.stage = "encode"
       /\ (last'.op = "predict" /\ is_binary = "None" /\ last'.err = "none") =>
            /\ last'.out.kind = "labels"
            /\ last'.out.val \in {"Good", "Acceptable", "Marginal", "Poor"}]_vars

\* fit, then predict, with the flag never set
C9_Witness ==
    /\ is_binary = "None"
    /\ last.op = "predict"
    /\ last.err = "none"
    /\ last.out.kind = "labels"
    /\ model.trained
    /\ calls = 2

\* C10: a fit that fails leaves the trained state unchanged: the network of
\* the last successful fit is still the one held.
C10_FailedFitKeepsNetwork ==
    [][(/\ last'.op = "fit"
        /\ last'.err # "none"
        /\ last.fitted # 0
        /\ model.id = last.fitted) => model' = model]_vars

\* C10 as amended: a fit that fails while constructing the network leaves
\* the held network in place; a fit that fails while encoding the targets or
\* while training has already replaced it by the newly built, untrained
\* network, which is the one a later predict uses.
C10_FailedFitAfterBuildReplaces ==
    [][/\ (last'.op = "fit" /\ last'.err # "none") =>
            IF last'.args.x_dim = 0
            THEN model' = model
            ELSE /\ model'.id = builds + 1
                 /\ model' # model
                 /\ ~model'.trained
       /\ (last'.op = "predict" /\ last'.err = "none") => last'.out.net = model.id]_vars

\* predict after a failed fit returns from the untrained replacement
C10_Witness ==
    /\ last.op = "predict"
    /\ last.err = "none"
    /\ last.fitted # 0
    /\ last.out.net # last.fitted
    /\ ~model.trained

=============================================================================
